---- MODULE Spec2Model ----
(***************************************************************************)
(* Pre-packed weights caching: PrepackedWeightsContainer (the WeightCache  *)
(* of the design) as a state machine.  Caller threads acquire mutex_ and,  *)
(* while holding it, call the container's methods; the owner destroys the  *)
(* container when no caller is left.                                       *)
(***************************************************************************)
EXTENDS Integers, FiniteSets, Sequences, TLC

\* ---------------------------------------------------------------- bounds
NumThreads == 2
NumKeys == 2
NumBlobs == 2
MaxCount == 2
MaxCalls == 2
MaxWrites == 3
MaxStrLen == 2

Threads == 1..NumThreads
Keys == 1..NumKeys
BlobIds == 1..NumBlobs
Graphs == {"g1", "g2"}
Names == {"w1", "w2"}

\* ------------------------------------------------------- program constants
\* The one supported device name.
CPU == "Cpu"
Devices == {CPU, "Gpu"}

NoThread == 0
\* A null AllocatorPtr; allocator instances are numbered from 1 in the
\* order CreateAllocator constructs them.
NoAllocator == 0
\* A PrePackedWeights instance: the identity of its buffers and the
\* allocator instance the buffers were allocated through (NoAllocator when
\* they did not come from the container's registry).
NoBlob == [id |-> 0, alloc |-> NoAllocator]
Blobs == [id : BlobIds, alloc : 0..MaxCount]

\* An empty std::unordered_map.
EmptyMap == [k \in {} |-> NoBlob]

\* The map of blobs declared ahead of the allocators.
Members_MapFirst == <<"mutex_", "prepacked_weights_map_", "allocators_">>

\* Members of PrepackedWeightsContainer in declaration order.
Members == <<"mutex_", "allocators_", "prepacked_weights_map_">>

VARIABLES
  prepacked_weights_map_,  \* key -> PrePackedWeights
  allocators_,             \* device name -> allocator instance
  mutex_,                  \* the thread holding mutex_, or NoThread
  destroyed,               \* how many members the destructor has destroyed
  created,                 \* how many allocators CreateAllocator has constructed
  released,                \* registry allocators released by the destructor
  pc,                      \* per thread: position of the caller
  last,                    \* per thread: the last call made and its result
  alloc,                   \* per thread: the AllocatorPtr it holds
  firstBlob,               \* history: key -> blob of the first Write that returned true
  wins,                    \* history: key -> number of Writes that returned true
  packCount,               \* history: key -> number of times a caller packed it
  handed,                  \* history: the allocator instances GetOrCreateAllocator has returned
  maker                    \* history: the thread whose call constructed the last allocator

\* Callers that do not follow the locking contract.
VARIABLES
  unsynced,                \* history: the threads that have called without taking mutex_
  holding,                 \* per thread: the PrePackedWeights object it packed and still owns
  dropped                  \* per thread: the blob its last call released, or NoBlob

\* PrepackedForSerialization (the ScopedWeightStore of the design) and its
\* Subgraph scopes, used by one thread.
VARIABLES
  key_to_blobs_,           \* map object -> (key -> PrePackedWeights); the store owns object TheMap
  scopes,                  \* Subgraph object -> its members
  calls,                   \* how many calls have changed the store so far
  returned,                \* history: <<scope, graph, child>> for every GetOrCreateSubgraph call
  replaced,                \* history: the keys at which a different blob has been overwritten
  sres                     \* the last call made on a scope and its result

\* PrepackedWeightsForSerialization, used by one thread.
VARIABLES
  ser_key_to_blobs_,       \* key_to_blobs_: key -> PrePackedWeights
  weight_to_prepacks_,     \* weight name -> vector of iterators into key_to_blobs_
  wres,                    \* the last call made and its result
  written                  \* history: weight name -> the <<key, blob>> of each WriteWeight, in order

\* The caller that composes the key of a packing before it asks the cache.
VARIABLES
  packings,                \* two packings, each an operator type and the hash of its buffers
  cache_keys               \* the key composed for each packing, or NoKey before that

containerVars == <<prepacked_weights_map_, allocators_, mutex_, destroyed, created, released,
                   pc, last, alloc, firstBlob, wins, packCount, handed, maker, unsynced,
                   holding, dropped>>
scopeVars == <<key_to_blobs_, scopes, calls, returned, replaced, sres>>
serVars == <<ser_key_to_blobs_, weight_to_prepacks_, wres, written>>

keyVars == <<packings, cache_keys>>

vars == <<containerVars, scopeVars, serVars, keyVars>>

cacheVars == <<prepacked_weights_map_, allocators_>>
histVars == <<firstBlob, wins, packCount, handed, maker>>

\* ---------------------------------------------------------------- helpers
Bump(n) == IF n < MaxCount THEN n + 1 ELSE MaxCount

Range(f) == {f[x] : x \in DOMAIN f}

\* What a caller knows of its last call: the method, its arguments, what it
\* returned or threw, and how many allocators it constructed.
Call(op, key, dev, arg, ret, err) ==
  [op |-> op, key |-> key, dev |-> dev, arg |-> arg, ret |-> ret, err |-> err, made |-> 0]

NoCall == Call("none", 0, "", NoBlob, 0, "none")

\* -------------------------------------------- the container's operations
\* std::unordered_map::insert: inserts only when the key is absent.
MapInsert(m, key, value) ==
  IF key \in DOMAIN m
    THEN [map |-> m, second |-> FALSE]
    ELSE [map |-> (key :> value) @@ m, second |-> TRUE]

\* std::unordered_map::at: throws when the key is absent.
MapAt(m, key) ==
  IF key \in DOMAIN m
    THEN [err |-> "none", val |-> m[key]]
    ELSE [err |-> "NotFound", val |-> NoBlob]

\* HasWeight with the comparison against end() inverted.
HasWeight_Inverted(m, key) == key \notin DOMAIN m

HasWeight(m, key) == key \in DOMAIN m

\* GetWeight through operator[] instead of at(): a default blob for an absent key.
GetWeight_Default(m, key) ==
  IF key \in DOMAIN m
    THEN [err |-> "none", val |-> m[key]]
    ELSE [err |-> "none", val |-> NoBlob]

GetWeight(m, key) == MapAt(m, key)

\* WriteWeight that forgets to move the blob in: the entry holds a default one.
\* What std::move leaves in the caller's PrePackedWeights: an object without buffers.
MovedFrom == NoBlob

\* make_pair(key, packed_weight) without std::move: the caller keeps its buffers.
MakePair_Copies(key, packed_weight) ==
  [first |-> key, second |-> packed_weight, source |-> packed_weight]

\* std::make_pair(key, std::move(packed_weight)): the temporary pair takes the
\* buffers and the caller's object is left moved-from.
MakePair(key, packed_weight) ==
  [first |-> key, second |-> packed_weight, source |-> MovedFrom]

\* The temporary pair dies at the end of the insert statement: it releases the
\* blob unless insert has moved it into a map node.
TemporaryReleases(pair, inserted) == IF inserted THEN NoBlob ELSE pair.second

\* WriteWeight as a one-entry cache: storing a new key drops the other entries.
WriteWeight_Evicts(m, key, packed_weight) ==
  IF key \in DOMAIN m
    THEN [map |-> m, ret |-> FALSE]
    ELSE [map |-> (key :> packed_weight), ret |-> TRUE]

WriteWeight_StoresDefault(m, key, packed_weight) ==
  LET ret == MapInsert(m, key, NoBlob)
  IN [map |-> ret.map, ret |-> ret.second]

\* WriteWeight through insert_or_assign: a present entry is overwritten.
WriteWeight_Overwrite(m, key, packed_weight) ==
  [map |-> [k \in DOMAIN m \cup {key} |-> IF k = key THEN packed_weight ELSE m[k]],
   ret |-> key \notin DOMAIN m]

\* WriteWeight through operator[]: always assigns and reports an insertion.
WriteWeight_Assign(m, key, packed_weight) ==
  [map |-> [k \in DOMAIN m \cup {key} |-> IF k = key THEN packed_weight ELSE m[k]],
   ret |-> TRUE]

\* WriteWeight returning the negation of insert's flag.
WriteWeight_Negated(m, key, packed_weight) ==
  LET ret == MapInsert(m, key, packed_weight)
  IN [map |-> ret.map, ret |-> ~ret.second]

WriteWeight(m, key, packed_weight) ==
  LET ret == MapInsert(m, key, packed_weight)
  IN [map |-> ret.map, ret |-> ret.second]

GetNumberOfElements(m) == Cardinality(DOMAIN m)

\* GetOrCreateAllocator, in the three steps its body takes.
\* A find that never hits.
FindAllocator_Miss(allocs, device_name) == FALSE

FindAllocator(allocs, device_name) == device_name \in DOMAIN allocs

\* No device check: an allocator is created for any device name.
IsSupportedDevice_Any(device_name) == TRUE

IsSupportedDevice(device_name) == device_name = CPU

CreateAllocator(n) == n + 1

\* The created allocator is returned but not stored.
StoreAllocator_Forget(allocs, device_name, allocator) == allocs

StoreAllocator(allocs, device_name, allocator) ==
  [d \in DOMAIN allocs \cup {device_name} |->
     IF d = device_name THEN allocator ELSE allocs[d]]

\* ------------------------------------------------------------------ Init
InitContainer ==
  /\ prepacked_weights_map_ = EmptyMap
  /\ allocators_ = [d \in {} |-> NoAllocator]
  /\ mutex_ = NoThread
  /\ destroyed = 0
  /\ created = 0
  /\ released = {}
  /\ pc = [t \in Threads |-> "idle"]
  /\ last = [t \in Threads |-> NoCall]
  /\ alloc = [t \in Threads |-> NoAllocator]
  /\ firstBlob = EmptyMap
  /\ wins = [k \in Keys |-> 0]
  /\ packCount = [k \in Keys |-> 0]
  /\ handed = {}
  /\ maker = NoThread
  /\ unsynced = {}
  /\ holding = [t \in Threads |-> NoBlob]
  /\ dropped = [t \in Threads |-> NoBlob]

\* A PrepackedWeightsForSerialization after construction.
InitSer ==
  /\ ser_key_to_blobs_ = EmptyMap
  /\ weight_to_prepacks_ = EmptyMap
  /\ wres = [op |-> "none", name |-> "", index |-> 0, ret |-> NoBlob, err |-> "none"]
  /\ written = EmptyMap

\* A null Subgraph pointer, the store's main_graph_ and its key_to_blobs_.
NoScope == 0
MainGraph == 1
TheMap == 1

\* Strings are sequences of characters.  An operator type is any non-empty
\* name, a hash is a number written in digits.
OpTypeChars == {"1", "+"}
HashChars == {"1"}

StringsOver(chars) == UNION {[1..n -> chars] : n \in 1..MaxStrLen}

Packings == [op_type : StringsOver(OpTypeChars), hash : StringsOver(HashChars)]

NoKey == <<>>

\* A key composed without the separator.
CacheKey_NoSeparator(op_type, hash) == op_type \o hash

\* The key is : op_type + "+" + hash_of_prepacked_buffers.
CacheKey(op_type, hash) == op_type \o <<"+">> \o hash

InitKeys ==
  /\ packings = <<[op_type |-> <<"1">>, hash |-> <<"1">>], [op_type |-> <<"1">>, hash |-> <<"1">>]>>
  /\ cache_keys = <<NoKey, NoKey>>

Init ==
  /\ InitKeys
  /\ InitContainer
  /\ key_to_blobs_ = (TheMap :> EmptyMap)
  /\ scopes = (MainGraph :>
       [overwrite_for_save_ |-> FALSE, parent_ |-> NoScope, key_to_blobs_ |-> TheMap,
        weight_to_pre_packs_ |-> EmptyMap, subgraph_prepacks_ |-> EmptyMap])
  /\ calls = 0
  /\ returned = {}
  /\ replaced = {}
  /\ sres = [op |-> "none", scope |-> NoScope, ret |-> 0]
  /\ InitSer

Alive == destroyed = 0

\* A lock that does not wait for the holder to release it.
Lock_NoExclusion(t) ==
  /\ Alive
  /\ pc[t] = "idle"
  /\ mutex_' = t
  /\ pc' = [pc EXCEPT ![t] = "cs"]
  /\ UNCHANGED <<cacheVars, destroyed, created, released, last, alloc, histVars>>
  /\ UNCHANGED <<unsynced, holding, dropped, scopeVars, serVars, keyVars>>

\* --------------------------------------------------------------- callers
\* std::mutex::lock on mutex_.
Lock(t) ==
  /\ Alive
  /\ pc[t] = "idle"
  /\ mutex_ = NoThread
  /\ mutex_' = t
  /\ pc' = [pc EXCEPT ![t] = "cs"]
  /\ UNCHANGED <<cacheVars, destroyed, created, released, last, alloc, histVars>>
  /\ UNCHANGED <<unsynced, holding, dropped, scopeVars, serVars, keyVars>>

\* std::mutex::unlock on mutex_; the caller's locals go out of scope.
Unlock(t) ==
  /\ pc[t] = "cs"
  /\ mutex_ = t
  /\ mutex_' = NoThread
  /\ pc' = [pc EXCEPT ![t] = "idle"]
  /\ last' = [last EXCEPT ![t] = NoCall]
  /\ alloc' = [alloc EXCEPT ![t] = NoAllocator]
  /\ holding' = [holding EXCEPT ![t] = NoBlob]
  /\ dropped' = [dropped EXCEPT ![t] = NoBlob]
  /\ UNCHANGED <<cacheVars, destroyed, created, released, histVars>>
  /\ UNCHANGED <<unsynced, scopeVars, serVars, keyVars>>

\* HasWeight that takes mutex_ itself.
DoHasWeight_TakesMutex(t, key) ==
  /\ pc[t] = "cs"
  /\ mutex_ = NoThread
  /\ last' = [last EXCEPT ![t] =
       Call("HasWeight", key, "", NoBlob, HasWeight(prepacked_weights_map_, key), "none")]
  /\ UNCHANGED <<cacheVars, mutex_, destroyed, created, released, pc, alloc, histVars>>
  /\ dropped' = [dropped EXCEPT ![t] = NoBlob]
  /\ UNCHANGED <<unsynced, holding, scopeVars, serVars, keyVars>>

DoHasWeight(t, key) ==
  /\ pc[t] = "cs"
  /\ last' = [last EXCEPT ![t] =
       Call("HasWeight", key, "", NoBlob, HasWeight(prepacked_weights_map_, key), "none")]
  /\ UNCHANGED <<cacheVars, mutex_, destroyed, created, released, pc, alloc, histVars>>
  /\ dropped' = [dropped EXCEPT ![t] = NoBlob]
  /\ UNCHANGED <<unsynced, holding, scopeVars, serVars, keyVars>>

\* GetWeight through operator[]: looking up an absent key inserts a default blob.
DoGetWeight_Inserts(t, key) ==
  /\ pc[t] = "cs"
  /\ LET r == GetWeight(prepacked_weights_map_, key)
     IN last' = [last EXCEPT ![t] = Call("GetWeight", key, "", NoBlob, r.val, "none")]
  /\ prepacked_weights_map_' = MapInsert(prepacked_weights_map_, key, NoBlob).map
  /\ UNCHANGED <<allocators_, mutex_, destroyed, created, released, pc, alloc, histVars>>
  /\ dropped' = [dropped EXCEPT ![t] = NoBlob]
  /\ UNCHANGED <<unsynced, holding, scopeVars, serVars, keyVars>>

DoGetWeight(t, key) ==
  /\ pc[t] = "cs"
  /\ LET r == GetWeight(prepacked_weights_map_, key)
     IN last' = [last EXCEPT ![t] = Call("GetWeight", key, "", NoBlob, r.val, r.err)]
  /\ UNCHANGED <<cacheVars, mutex_, destroyed, created, released, pc, alloc, histVars>>
  /\ dropped' = [dropped EXCEPT ![t] = NoBlob]
  /\ UNCHANGED <<unsynced, holding, scopeVars, serVars, keyVars>>

DoGetNumberOfElements(t) ==
  /\ pc[t] = "cs"
  /\ last' = [last EXCEPT ![t] =
       Call("GetNumberOfElements", 0, "", NoBlob,
            GetNumberOfElements(prepacked_weights_map_), "none")]
  /\ UNCHANGED <<cacheVars, mutex_, destroyed, created, released, pc, alloc, histVars>>
  /\ dropped' = [dropped EXCEPT ![t] = NoBlob]
  /\ UNCHANGED <<unsynced, holding, scopeVars, serVars, keyVars>>

\* The caller packs the weight whose key HasWeight has just reported absent,
\* allocating the buffers through the allocator GetOrCreateAllocator gave it.
Pack(t, id) ==
  /\ pc[t] = "cs"
  /\ alloc[t] # NoAllocator
  /\ last[t].op = "HasWeight"
  /\ last[t].ret = FALSE
  /\ pc' = [pc EXCEPT ![t] = "packed"]
  /\ last' = [last EXCEPT ![t] =
       Call("Pack", last[t].key, "", [id |-> id, alloc |-> alloc[t]], 0, "none")]
  /\ packCount' = [packCount EXCEPT ![last[t].key] = Bump(@)]
  /\ holding' = [holding EXCEPT ![t] = [id |-> id, alloc |-> alloc[t]]]
  /\ UNCHANGED <<cacheVars, mutex_, destroyed, created, released, alloc, firstBlob, wins, handed, maker>>
  /\ dropped' = [dropped EXCEPT ![t] = NoBlob]
  /\ UNCHANGED <<unsynced, scopeVars, serVars, keyVars>>

\* The blobs thread t can pass to WriteWeight: the one it has just packed, or
\* one it brought along (loaded earlier, not allocated through the registry).
Candidates(t) ==
  IF pc[t] = "packed" THEN {last[t].arg} ELSE [id : BlobIds, alloc : {NoAllocator}]

\* WriteWeight(key, std::move(packed_weight)).
DoWriteWeight(t, key, packed_weight) ==
  /\ pc[t] \in {"cs", "packed"}
  /\ pc[t] = "packed" => key = last[t].key
  /\ packed_weight \in Candidates(t)
  /\ LET p == MakePair(key, packed_weight)
         r == WriteWeight(prepacked_weights_map_, p.first, p.second)
     IN /\ prepacked_weights_map_' = r.map
        /\ last' = [last EXCEPT ![t] = Call("WriteWeight", key, "", packed_weight, r.ret, "none")]
        /\ wins' = [wins EXCEPT ![key] = IF r.ret THEN Bump(@) ELSE @]
        /\ firstBlob' = IF r.ret /\ key \notin DOMAIN firstBlob
                          THEN (key :> packed_weight) @@ firstBlob
                          ELSE firstBlob
        /\ holding' = [holding EXCEPT ![t] = p.source]
        /\ dropped' = [dropped EXCEPT ![t] = TemporaryReleases(p, r.ret)]
  /\ pc' = [pc EXCEPT ![t] = "cs"]
  /\ UNCHANGED <<allocators_, mutex_, destroyed, created, released, alloc, packCount, handed, maker>>
  /\ UNCHANGED <<unsynced, scopeVars, serVars, keyVars>>

\* GetOrCreateAllocator: allocators_.find, and the device check on a miss.
AllocFind(t, device_name) ==
  /\ pc[t] = "cs"
  /\ IF FindAllocator(allocators_, device_name)
       THEN /\ alloc' = [alloc EXCEPT ![t] = allocators_[device_name]]
            /\ last' = [last EXCEPT ![t] =
                 Call("GetOrCreateAllocator", 0, device_name, NoBlob,
                      allocators_[device_name], "none")]
            /\ handed' = handed \cup {allocators_[device_name]}
            /\ pc' = pc
       ELSE IF IsSupportedDevice(device_name)
         THEN /\ last' = [last EXCEPT ![t] =
                   Call("find", 0, device_name, NoBlob, NoAllocator, "none")]
              /\ pc' = [pc EXCEPT ![t] = "create"]
              /\ UNCHANGED <<alloc, handed>>
         ELSE /\ last' = [last EXCEPT ![t] =
                   Call("GetOrCreateAllocator", 0, device_name, NoBlob,
                        NoAllocator, "UnsupportedDevice")]
              /\ pc' = pc
              /\ UNCHANGED <<alloc, handed>>
  /\ UNCHANGED <<cacheVars, mutex_, destroyed, created, released, firstBlob, wins, packCount,
                 maker>>
  /\ dropped' = [dropped EXCEPT ![t] = NoBlob]
  /\ UNCHANGED <<unsynced, holding, scopeVars, serVars, keyVars>>

\* GetOrCreateAllocator: CreateAllocator(device_info).
AllocCreate(t) ==
  /\ pc[t] = "create"
  /\ created < MaxCount
  /\ created' = CreateAllocator(created)
  /\ last' = [last EXCEPT ![t].op = "create", ![t].ret = CreateAllocator(created),
                          ![t].made = 1]
  /\ pc' = [pc EXCEPT ![t] = "store"]
  /\ maker' = t
  /\ UNCHANGED <<cacheVars, mutex_, destroyed, released, alloc, firstBlob, wins, packCount,
                 handed>>
  /\ dropped' = [dropped EXCEPT ![t] = NoBlob]
  /\ UNCHANGED <<unsynced, holding, scopeVars, serVars, keyVars>>

\* GetOrCreateAllocator: allocators_[device_name] = allocator; return allocator.
AllocStore(t) ==
  /\ pc[t] = "store"
  /\ allocators_' = StoreAllocator(allocators_, last[t].dev, last[t].ret)
  /\ alloc' = [alloc EXCEPT ![t] = last[t].ret]
  /\ last' = [last EXCEPT ![t].op = "GetOrCreateAllocator"]
  /\ handed' = handed \cup {last[t].ret}
  /\ pc' = [pc EXCEPT ![t] = "cs"]
  /\ UNCHANGED <<prepacked_weights_map_, mutex_, destroyed, created, released,
                 firstBlob, wins, packCount, maker>>
  /\ dropped' = [dropped EXCEPT ![t] = NoBlob]
  /\ UNCHANGED <<unsynced, holding, scopeVars, serVars, keyVars>>

\* ------------------------------------------------------------ destruction
\* ~PrepackedWeightsContainer() = default destroys the members in the
\* reverse of their declaration order.
DestructionOrder == [i \in 1..Len(Members) |-> Members[Len(Members) + 1 - i]]

Destroy ==
  /\ destroyed < Len(Members)
  /\ \A t \in Threads : pc[t] = "idle"
  /\ mutex_ = NoThread
  /\ destroyed' = destroyed + 1
  /\ LET member == DestructionOrder[destroyed + 1]
     IN /\ prepacked_weights_map_' =
             IF member = "prepacked_weights_map_" THEN EmptyMap ELSE prepacked_weights_map_
        /\ allocators_' =
             IF member = "allocators_" THEN [d \in {} |-> NoAllocator] ELSE allocators_
        /\ released' =
             IF member = "allocators_" THEN released \cup Range(allocators_) ELSE released
  /\ UNCHANGED <<mutex_, created, pc, last, alloc, histVars>>
  /\ UNCHANGED <<unsynced, holding, dropped, scopeVars, serVars, keyVars>>

\* ------------------------------------------------------------------ Next
Next ==
  \/ \E t \in Threads : Lock(t)
  \/ \E t \in Threads : Unlock(t)
  \/ \E t \in Threads, key \in Keys : DoHasWeight(t, key)
  \/ \E t \in Threads, key \in Keys : DoGetWeight(t, key)
  \/ \E t \in Threads : DoGetNumberOfElements(t)
  \/ \E t \in Threads, id \in BlobIds : Pack(t, id)
  \/ \E t \in Threads, key \in Keys : \E b \in Candidates(t) : DoWriteWeight(t, key, b)
  \/ \E t \in Threads, d \in Devices : AllocFind(t, d)
  \/ \E t \in Threads : AllocCreate(t)
  \/ \E t \in Threads : AllocStore(t)
  \/ Destroy

Spec == Init /\ [][Next]_vars

\* --------------------------------------------- callers on a fair lock
\* std::mutex::lock in two steps: the caller asks for mutex_ and blocks,
\* and is given it once it is free.
Request(t) ==
  /\ Alive
  /\ pc[t] = "idle"
  /\ pc' = [pc EXCEPT ![t] = "waiting"]
  /\ UNCHANGED <<cacheVars, mutex_, destroyed, created, released, last, alloc, histVars>>
  /\ UNCHANGED <<unsynced, holding, dropped, scopeVars, serVars, keyVars>>

Acquire(t) ==
  /\ pc[t] = "waiting"
  /\ mutex_ = NoThread
  /\ mutex_' = t
  /\ pc' = [pc EXCEPT ![t] = "cs"]
  /\ UNCHANGED <<cacheVars, destroyed, created, released, last, alloc, histVars>>
  /\ UNCHANGED <<unsynced, holding, dropped, scopeVars, serVars, keyVars>>

\* The steps a caller's own code takes once it is inside: it finishes the
\* call it is in the middle of, writes what it packed, and unlocks.
Proceed(t) ==
  \/ AllocCreate(t)
  \/ AllocStore(t)
  \/ pc[t] = "packed" /\ \E key \in Keys : \E b \in Candidates(t) : DoWriteWeight(t, key, b)
  \/ Unlock(t)

\* The callers of the check-then-pack-then-write sequence: they get the
\* allocator, ask HasWeight, pack what is absent and write what they packed.
FairNext ==
  \/ \E t \in Threads : Request(t)
  \/ \E t \in Threads : Acquire(t)
  \/ \E t \in Threads : Unlock(t)
  \/ \E t \in Threads, key \in Keys : DoHasWeight(t, key)
  \/ \E t \in Threads, id \in BlobIds : Pack(t, id)
  \/ \E t \in Threads, key \in Keys : \E b \in Candidates(t) :
       pc[t] = "packed" /\ DoWriteWeight(t, key, b)
  \/ \E t \in Threads : AllocFind(t, CPU)
  \/ \E t \in Threads : AllocCreate(t)
  \/ \E t \in Threads : AllocStore(t)

\* The lock is fair, and a thread that is inside keeps running.
FairSpec ==
  /\ Init
  /\ [][FairNext]_vars
  /\ \A t \in Threads : SF_vars(Acquire(t)) /\ WF_vars(Proceed(t))

\* ------------------------------------------- callers that skip the lock
\* A caller that starts calling the container without taking mutex_.
SkipLock(t) ==
  /\ Alive
  /\ pc[t] = "idle"
  /\ pc' = [pc EXCEPT ![t] = "cs"]
  /\ unsynced' = unsynced \cup {t}
  /\ UNCHANGED <<cacheVars, mutex_, destroyed, created, released, last, alloc, histVars>>
  /\ UNCHANGED <<holding, dropped, scopeVars, serVars, keyVars>>

\* That caller is done; its locals go out of scope.
Leave(t) ==
  /\ pc[t] = "cs"
  /\ mutex_ # t
  /\ pc' = [pc EXCEPT ![t] = "idle"]
  /\ last' = [last EXCEPT ![t] = NoCall]
  /\ alloc' = [alloc EXCEPT ![t] = NoAllocator]
  /\ UNCHANGED <<cacheVars, mutex_, destroyed, created, released, histVars>>
  /\ UNCHANGED <<unsynced, holding, dropped, scopeVars, serVars, keyVars>>

\* GetOrCreateAllocator called by threads of which some take mutex_ and
\* some do not.  Its three steps, find, construct and store, interleave
\* between threads that are not excluded by the lock.
RaceNext ==
  \/ \E t \in Threads : Lock(t)
  \/ \E t \in Threads : Unlock(t)
  \/ \E t \in Threads : SkipLock(t)
  \/ \E t \in Threads : Leave(t)
  \/ \E t \in Threads, d \in Devices : AllocFind(t, d)
  \/ \E t \in Threads : AllocCreate(t)
  \/ \E t \in Threads : AllocStore(t)

RaceSpec == Init /\ [][RaceNext]_vars

\* ====================================================================
\* PrepackedForSerialization and PrepackedForSerialization::Subgraph
\* ====================================================================

\* The scopes that exist, and the blobs a caller can hand to a scope.
Scopes == DOMAIN scopes

StoreBlobs == [id : BlobIds, alloc : {NoAllocator}]

\* std::make_unique<Subgraph>: objects are numbered in the order they are made.
NewObject(objects) == Cardinality(DOMAIN objects) + 1

\* GetSubgraph that asks the parent chain when this scope has no child for graph.
RECURSIVE GetSubgraph_ParentChain(_, _, _)
GetSubgraph_ParentChain(sc, s, graph) ==
  IF graph \in DOMAIN sc[s].subgraph_prepacks_ THEN sc[s].subgraph_prepacks_[graph]
  ELSE IF sc[s].parent_ = NoScope THEN NoScope
  ELSE GetSubgraph_ParentChain(sc, sc[s].parent_, graph)

\* GetSubgraph that reports a child that is still empty as absent.
GetSubgraph_NullWhenEmpty(sc, s, graph) ==
  IF /\ graph \in DOMAIN sc[s].subgraph_prepacks_
     /\ sc[sc[s].subgraph_prepacks_[graph]].weight_to_pre_packs_ # EmptyMap
    THEN sc[s].subgraph_prepacks_[graph]
    ELSE NoScope

\* subgraph_prepacks_.find(graph): the child, or nullptr.
GetSubgraph(sc, s, graph) ==
  IF graph \in DOMAIN sc[s].subgraph_prepacks_
    THEN sc[s].subgraph_prepacks_[graph]
    ELSE NoScope

Parent(sc, s) == sc[s].parent_

IsOverWriteForSave(sc, s) == sc[s].overwrite_for_save_

\* A Subgraph that keeps its own copy of the key-to-blob map.
BindKeyToBlobs_Copy(heap, key_blobs) ==
  [heap |-> (NewObject(heap) :> heap[key_blobs]) @@ heap, ref |-> NewObject(heap)]

\* key_to_blobs_(key_blobs): the member is a reference to the caller's map.
BindKeyToBlobs(heap, key_blobs) == [heap |-> heap, ref |-> key_blobs]

\* A Subgraph constructor that leaves parent_ at its default, nullptr.
Subgraph_DefaultParent(par, key_blobs, overwrite_for_save) ==
  [overwrite_for_save_ |-> overwrite_for_save,
   parent_ |-> NoScope,
   key_to_blobs_ |-> key_blobs,
   weight_to_pre_packs_ |-> EmptyMap,
   subgraph_prepacks_ |-> EmptyMap]

\* The Subgraph constructor.
Subgraph(par, key_blobs, overwrite_for_save) ==
  [overwrite_for_save_ |-> overwrite_for_save,
   parent_ |-> par,
   key_to_blobs_ |-> key_blobs,
   weight_to_pre_packs_ |-> EmptyMap,
   subgraph_prepacks_ |-> EmptyMap]

\* GetOrCreateSubgraph that keys children by graph alone: a child made for
\* graph under any scope is handed out again instead of making a new one.
GetOrCreateSubgraph_ByGraphOnly(sc, heap, s, graph) ==
  LET holders == {o \in DOMAIN sc : graph \in DOMAIN sc[o].subgraph_prepacks_}
  IN IF holders # {}
       THEN LET child == sc[CHOOSE o \in holders : TRUE].subgraph_prepacks_[graph]
            IN [scopes |-> [sc EXCEPT ![s].subgraph_prepacks_ = (graph :> child) @@ @],
                heap |-> heap,
                ret |-> child]
       ELSE LET child == NewObject(sc)
            IN [scopes |-> (child :> Subgraph(s, sc[s].key_to_blobs_, sc[s].overwrite_for_save_)) @@
                           [sc EXCEPT ![s].subgraph_prepacks_ = (graph :> child) @@ @],
                heap |-> heap,
                ret |-> child]

\* GetOrCreateSubgraph that makes a new Subgraph on every call.
GetOrCreateSubgraph_AlwaysNew(sc, heap, s, graph) ==
  LET child == NewObject(sc)
      bound == BindKeyToBlobs(heap, sc[s].key_to_blobs_)
  IN [scopes |-> (child :> Subgraph(s, bound.ref, sc[s].overwrite_for_save_)) @@
                 [sc EXCEPT ![s].subgraph_prepacks_ =
                    [g \in DOMAIN @ \cup {graph} |-> IF g = graph THEN child ELSE @[g]]],
      heap |-> bound.heap,
      ret |-> child]

\* GetOrCreateSubgraph that makes the child with the default mode flag.
GetOrCreateSubgraph_DefaultFlag(sc, heap, s, graph) ==
  IF graph \in DOMAIN sc[s].subgraph_prepacks_
    THEN [scopes |-> sc, heap |-> heap, ret |-> sc[s].subgraph_prepacks_[graph]]
    ELSE LET child == NewObject(sc)
             bound == BindKeyToBlobs(heap, sc[s].key_to_blobs_)
         IN [scopes |-> (child :> Subgraph(s, bound.ref, FALSE)) @@
                        [sc EXCEPT ![s].subgraph_prepacks_ = (graph :> child) @@ @],
             heap |-> bound.heap,
             ret |-> child]

\* subgraph_prepacks_.emplace(graph, nullptr), and make_unique on insertion.
GetOrCreateSubgraph(sc, heap, s, graph) ==
  IF graph \in DOMAIN sc[s].subgraph_prepacks_
    THEN [scopes |-> sc, heap |-> heap, ret |-> sc[s].subgraph_prepacks_[graph]]
    ELSE LET child == NewObject(sc)
             bound == BindKeyToBlobs(heap, sc[s].key_to_blobs_)
         IN [scopes |-> (child :> Subgraph(s, bound.ref, sc[s].overwrite_for_save_)) @@
                        [sc EXCEPT ![s].subgraph_prepacks_ = (graph :> child) @@ @],
             heap |-> bound.heap,
             ret |-> child]

\* InsertFromDisk that also links the entry into an index list of the scope.
InsertFromDisk_Indexes(sc, heap, s, key, packed_weight) ==
  LET ref == sc[s].key_to_blobs_
  IN [scopes |-> [sc EXCEPT ![s].weight_to_pre_packs_ =
                    [n \in DOMAIN @ \cup {"w1"} |->
                       IF n = "w1" THEN (IF n \in DOMAIN @ THEN Append(@[n], key) ELSE <<key>>)
                       ELSE @[n]]],
      heap |-> [heap EXCEPT ![ref] = MapInsert(@, key, packed_weight).map]]

\* InsertFromDisk: the blob goes into the flat map and into no index.
InsertFromDisk(sc, heap, s, key, packed_weight) ==
  LET ref == sc[s].key_to_blobs_
  IN [scopes |-> sc,
      heap |-> [heap EXCEPT ![ref] = MapInsert(@, key, packed_weight).map]]

\* push_back of an iterator on the index list of weight_name; an iterator
\* of the flat map is written as the key of the entry it points at.
PushBack(index, weight_name, it) ==
  [n \in DOMAIN index \cup {weight_name} |->
     IF n = weight_name
       THEN (IF n \in DOMAIN index THEN Append(index[n], it) ELSE <<it>>)
       ELSE index[n]]

\* insert_or_assign on a map.
MapAssign(map, key, value) ==
  [k \in DOMAIN map \cup {key} |-> IF k = key THEN value ELSE map[k]]

\* CreateOrOverWrite that reports whether it inserted a new entry.
CreateOrOverWrite_ReportsInserted(sc, heap, s, weight_name, key, packed_weight) ==
  LET ref == sc[s].key_to_blobs_
  IN [scopes |-> [sc EXCEPT ![s].weight_to_pre_packs_ = PushBack(@, weight_name, key)],
      heap |-> [heap EXCEPT ![ref] = MapAssign(@, key, packed_weight)],
      ret |-> key \notin DOMAIN heap[ref]]

\* CreateOrOverWrite that keeps the entry already stored at key.
CreateOrOverWrite_KeepsOld(sc, heap, s, weight_name, key, packed_weight) ==
  LET ref == sc[s].key_to_blobs_
  IN [scopes |-> [sc EXCEPT ![s].weight_to_pre_packs_ = PushBack(@, weight_name, key)],
      heap |-> [heap EXCEPT ![ref] = MapInsert(@, key, packed_weight).map],
      ret |-> key \in DOMAIN heap[ref]]

\* CreateOrOverWrite that also links the entry into the parent's index.
CreateOrOverWrite_LinksParent(sc, heap, s, weight_name, key, packed_weight) ==
  LET ref == sc[s].key_to_blobs_
      own == [sc EXCEPT ![s].weight_to_pre_packs_ = PushBack(@, weight_name, key)]
  IN [scopes |-> IF sc[s].parent_ = NoScope THEN own
                 ELSE [own EXCEPT ![sc[s].parent_].weight_to_pre_packs_ =
                         PushBack(@, weight_name, key)],
      heap |-> [heap EXCEPT ![ref] = MapAssign(@, key, packed_weight)],
      ret |-> key \in DOMAIN heap[ref]]

\* CreateOrOverWrite: the flat-map entry at key is inserted or overwritten,
\* an iterator to it is appended to this scope's list for weight_name, and
\* the result tells whether an entry at key existed before.
CreateOrOverWrite(sc, heap, s, weight_name, key, packed_weight) ==
  LET ref == sc[s].key_to_blobs_
  IN [scopes |-> [sc EXCEPT ![s].weight_to_pre_packs_ = PushBack(@, weight_name, key)],
      heap |-> [heap EXCEPT ![ref] = MapAssign(@, key, packed_weight)],
      ret |-> key \in DOMAIN heap[ref]]

\* The keys a scope's index lists point at.
Linked(index) == UNION {Range(index[n]) : n \in DOMAIN index}

\* GetPrepackedWeights that finds only what the scope's own index links.
GetPrepackedWeights_ThroughIndex(sc, heap, s, key) ==
  LET map == heap[sc[s].key_to_blobs_]
  IN IF key \in DOMAIN map /\ key \in Linked(sc[s].weight_to_pre_packs_)
       THEN map[key] ELSE NoBlob

\* GetPrepackedWeights: a pointer to the blob at key in the flat map, or null.
GetPrepackedWeights(sc, heap, s, key) ==
  LET map == heap[sc[s].key_to_blobs_]
  IN IF key \in DOMAIN map THEN map[key] ELSE NoBlob

SCall(op, s, ret) == [op |-> op, scope |-> s, ret |-> ret]

\* PrepackedForSerialization(overwrite_for_save): an empty key_to_blobs_ and
\* main_graph_(nullptr, key_to_blobs_, overwrite_for_save).
InitStore(overwrite_for_save) ==
  /\ key_to_blobs_ = (TheMap :> EmptyMap)
  /\ scopes = (MainGraph :> Subgraph(NoScope, TheMap, overwrite_for_save))
  /\ calls = 0
  /\ returned = {}
  /\ replaced = {}
  /\ sres = SCall("none", NoScope, 0)

DoGetOrCreateSubgraph(s, graph) ==
  /\ s \in Scopes
  /\ graph \in DOMAIN scopes[s].subgraph_prepacks_ \/ calls < MaxCalls
  /\ LET r == GetOrCreateSubgraph(scopes, key_to_blobs_, s, graph)
     IN /\ scopes' = r.scopes
        /\ key_to_blobs_' = r.heap
        /\ sres' = SCall("GetOrCreateSubgraph", s, r.ret)
        /\ returned' = returned \cup {<<s, graph, r.ret>>}
  /\ calls' = IF graph \in DOMAIN scopes[s].subgraph_prepacks_ THEN calls ELSE calls + 1
  /\ UNCHANGED <<replaced, containerVars, serVars, keyVars>>

\* GetSubgraph through emplace: asking for an absent child creates it.
DoGetSubgraph_Creates(s, graph) ==
  /\ s \in Scopes
  /\ Cardinality(Scopes) <= MaxCalls
  /\ LET r == GetOrCreateSubgraph(scopes, key_to_blobs_, s, graph)
     IN /\ scopes' = r.scopes
        /\ key_to_blobs_' = r.heap
        /\ sres' = SCall("GetSubgraph", s, r.ret)
  /\ UNCHANGED <<calls, returned, replaced, containerVars, serVars, keyVars>>

DoGetSubgraph(s, graph) ==
  /\ s \in Scopes
  /\ sres' = SCall("GetSubgraph", s, GetSubgraph(scopes, s, graph))
  /\ UNCHANGED <<key_to_blobs_, scopes, calls, returned, replaced, containerVars, serVars, keyVars>>

\* What a duplicate key does to InsertFromDisk is not specified: the loader
\* feeds it the entries of one serialized map, each key once.
DoInsertFromDisk(s, key, packed_weight) ==
  /\ s \in Scopes
  /\ calls < MaxCalls
  /\ key \notin DOMAIN key_to_blobs_[scopes[s].key_to_blobs_]
  /\ LET r == InsertFromDisk(scopes, key_to_blobs_, s, key, packed_weight)
     IN /\ scopes' = r.scopes
        /\ key_to_blobs_' = r.heap
  /\ sres' = SCall("InsertFromDisk", s, 0)
  /\ calls' = calls + 1
  /\ UNCHANGED <<returned, replaced, containerVars, serVars, keyVars>>

DoCreateOrOverWrite(s, weight_name, key, packed_weight) ==
  /\ s \in Scopes
  /\ calls < MaxCalls
  /\ LET r == CreateOrOverWrite(scopes, key_to_blobs_, s, weight_name, key, packed_weight)
     IN /\ scopes' = r.scopes
        /\ key_to_blobs_' = r.heap
        /\ sres' = SCall("CreateOrOverWrite", s, r.ret)
  /\ replaced' = LET map == key_to_blobs_[scopes[s].key_to_blobs_]
                 IN IF key \in DOMAIN map /\ map[key] # packed_weight
                      THEN replaced \cup {key} ELSE replaced
  /\ calls' = calls + 1
  /\ UNCHANGED <<returned, containerVars, serVars, keyVars>>

DoGetPrepackedWeights(s, key) ==
  /\ s \in Scopes
  /\ sres' = SCall("GetPrepackedWeights", s,
                   GetPrepackedWeights(scopes, key_to_blobs_, s, key))
  /\ UNCHANGED <<key_to_blobs_, scopes, calls, returned, replaced, containerVars, serVars, keyVars>>

DoIsOverWriteForSave(s) ==
  /\ s \in Scopes
  /\ sres' = SCall("IsOverWriteForSave", s, IsOverWriteForSave(scopes, s))
  /\ UNCHANGED <<key_to_blobs_, scopes, calls, returned, replaced, containerVars, serVars, keyVars>>

\* Parent() that hands the parent over: it returns parent_ and leaves nullptr.
DoParent_Unlinks(s) ==
  /\ s \in Scopes
  /\ sres' = SCall("Parent", s, Parent(scopes, s))
  /\ scopes' = [scopes EXCEPT ![s].parent_ = NoScope]
  /\ UNCHANGED <<key_to_blobs_, calls, returned, replaced, containerVars, serVars, keyVars>>

DoParent(s) ==
  /\ s \in Scopes
  /\ sres' = SCall("Parent", s, Parent(scopes, s))
  /\ UNCHANGED <<key_to_blobs_, scopes, calls, returned, replaced, containerVars, serVars, keyVars>>

ScopeNext ==
  \/ \E s \in Scopes, graph \in Graphs : DoGetOrCreateSubgraph(s, graph)
  \/ \E s \in Scopes, graph \in Graphs : DoGetSubgraph(s, graph)
  \/ \E s \in Scopes, key \in Keys, b \in StoreBlobs : DoInsertFromDisk(s, key, b)
  \/ \E s \in Scopes, n \in Names, key \in Keys, b \in StoreBlobs :
       DoCreateOrOverWrite(s, n, key, b)
  \/ \E s \in Scopes, key \in Keys : DoGetPrepackedWeights(s, key)
  \/ \E s \in Scopes : DoIsOverWriteForSave(s)
  \/ \E s \in Scopes : DoParent(s)

ScopeInit ==
  /\ InitKeys
  /\ InitContainer
  /\ \E overwrite_for_save \in BOOLEAN : InitStore(overwrite_for_save)
  /\ InitSer

ScopeSpec == ScopeInit /\ [][ScopeNext]_vars

\* ====================================================================
\* Properties of PrepackedWeightsContainer
\* ====================================================================

\* The threads that can be the caller of a step (only the holder of mutex_
\* is past Lock), and the key of the WriteWeight such a step may be.
Writers == {t \in Threads : pc[t] \in {"cs", "packed"}}

WrittenKey(t) == {key \in Keys : last'[t].op = "WriteWeight" /\ last'[t].key = key}

\* C1: a WriteWeight(K, b) on an absent key K returns true, and right after
\* it HasWeight(K) is true and GetWeight(K) returns exactly b.
C1_WriteAbsentInserts ==
  [][\A t \in Writers : \A key \in WrittenKey(t), b \in Candidates(t) :
       (DoWriteWeight(t, key, b) /\ ~HasWeight(prepacked_weights_map_, key)) =>
          /\ last'[t].ret = TRUE
          /\ HasWeight(prepacked_weights_map_', key)
          /\ GetWeight(prepacked_weights_map_', key) = [err |-> "none", val |-> b]]_vars

\* A WriteWeight has returned true and its key now maps to the blob passed.
C1_Witness ==
  \E t \in Threads :
    /\ last[t].op = "WriteWeight"
    /\ last[t].ret = TRUE
    /\ HasWeight(prepacked_weights_map_, last[t].key)
    /\ last[t].arg \in Blobs
    /\ GetWeight(prepacked_weights_map_, last[t].key).val = last[t].arg

\* C2: a WriteWeight(K, b2) on a present key K returns false and overwrites
\* nothing: the map is unchanged, GetWeight(K) is still the blob of the first
\* successful write of K, and GetNumberOfElements() is unchanged.
C2_WritePresentKeeps ==
  [][\A t \in Writers : \A key \in WrittenKey(t), b2 \in Candidates(t) :
       (DoWriteWeight(t, key, b2) /\ HasWeight(prepacked_weights_map_, key)) =>
          /\ last'[t].ret = FALSE
          /\ prepacked_weights_map_' = prepacked_weights_map_
          /\ key \in DOMAIN firstBlob
          /\ GetWeight(prepacked_weights_map_', key) = [err |-> "none", val |-> firstBlob[key]]
          /\ GetNumberOfElements(prepacked_weights_map_') =
               GetNumberOfElements(prepacked_weights_map_)]_vars

\* A WriteWeight with a blob other than the stored one has returned false,
\* and the map still holds its one entry with the first blob.
C2_Witness ==
  \E t \in Threads :
    /\ last[t].op = "WriteWeight"
    /\ last[t].ret = FALSE
    /\ GetNumberOfElements(prepacked_weights_map_) = 1
    /\ prepacked_weights_map_[last[t].key] = firstBlob[last[t].key]
    /\ last[t].arg # firstBlob[last[t].key]


Winners == {k \in Keys : wins[k] >= 1}

\* C3: with every caller holding mutex_ across HasWeight -> pack if absent ->
\* WriteWeight, a key is packed at most once in every interleaving, a caller
\* packs only a key still absent at its write, and once a key has been packed
\* every other caller's HasWeight for it returns true.
C3_PackedAtMostOnce ==
  /\ \A k \in Keys : packCount[k] <= 1
  /\ \A t \in Threads :
       /\ pc[t] = "packed" =>
            /\ mutex_ = t
            /\ ~HasWeight(prepacked_weights_map_, last[t].key)
       /\ (last[t].op = "HasWeight" /\ packCount[last[t].key] >= 1) => last[t].ret = TRUE

\* A caller's HasWeight finds a key present that an earlier pack-and-write
\* put there.
C3_Witness ==
  \E t \in Threads :
    /\ last[t].op = "HasWeight"
    /\ last[t].ret = TRUE
    /\ packCount[last[t].key] = 1

\* C4: of the WriteWeight calls racing for one key, in every order exactly
\* one returns true (the first to run) and every other returns false, and the
\* blob stored at the key is the one the winner passed.
C4_OneWriterWins ==
  [][\A t \in Writers : \A key \in WrittenKey(t), b \in Candidates(t) :
       DoWriteWeight(t, key, b) =>
          /\ last'[t].ret = (wins[key] = 0)
          /\ wins'[key] = 1
          /\ last'[t].ret => prepacked_weights_map_'[key] = b
          /\ key \in DOMAIN firstBlob'
          /\ prepacked_weights_map_'[key] = firstBlob'[key]]_vars

\* A writer that brought its own blob has lost the race for a key another
\* writer packed; the key holds the winner's blob, allocated through the
\* registry, and not the loser's.
C4_Witness ==
  \E t \in Threads :
    /\ last[t].op = "WriteWeight"
    /\ last[t].ret = FALSE
    /\ wins[last[t].key] = 1
    /\ packCount[last[t].key] = 1
    /\ prepacked_weights_map_[last[t].key].alloc # NoAllocator
    /\ last[t].arg.alloc = NoAllocator

\* C5: for a key no WriteWeight has succeeded on, HasWeight is false and
\* GetWeight fails with NotFound, returning no blob.
C5_AbsentKey ==
  /\ \A k \in Keys \ Winners :
       /\ ~HasWeight(prepacked_weights_map_, k)
       /\ GetWeight(prepacked_weights_map_, k).err = "NotFound"
  /\ \A t \in Threads :
       /\ (last[t].op = "HasWeight" /\ last[t].key \notin Winners) => last[t].ret = FALSE
       /\ (last[t].op = "GetWeight" /\ last[t].key \notin Winners) =>
            last[t].err = "NotFound"

\* A GetWeight on a never-written key has failed with NotFound.
C5_Witness ==
  \E t \in Threads :
    /\ last[t].op = "GetWeight"
    /\ last[t].key \notin Winners
    /\ last[t].err = "NotFound"

\* C6: while the container lives, GetNumberOfElements() is the number of
\* distinct keys a WriteWeight returned true for; so nothing but a successful
\* WriteWeight changes it.
C6_SizeCountsWinners ==
  /\ Alive => GetNumberOfElements(prepacked_weights_map_) = Cardinality(Winners)
  /\ \A t \in Threads :
       last[t].op = "GetNumberOfElements" => last[t].ret = Cardinality(Winners)

\* GetNumberOfElements() has returned 2 after writes to two distinct keys.
C6_Witness ==
  \E t \in Threads :
    /\ last[t].op = "GetNumberOfElements"
    /\ last[t].ret = 2
    /\ Cardinality(Winners) = 2

\* C7: the first GetOrCreateAllocator("Cpu") constructs an allocator and
\* stores it; every later GetOrCreateAllocator("Cpu") constructs nothing and
\* returns that same instance, whatever was called in between.
C7_AllocatorMemoized ==
  /\ created <= 1
  /\ FindAllocator(allocators_, CPU) => (created = 1 /\ allocators_[CPU] = created)
  /\ \A t \in Threads :
       (last[t].op = "GetOrCreateAllocator" /\ last[t].dev = CPU) =>
          /\ last[t].err = "none"
          /\ FindAllocator(allocators_, CPU)
          /\ last[t].ret = allocators_[CPU]
          /\ alloc[t] = allocators_[CPU]
          /\ last[t].made = 1 => handed = {last[t].ret}

\* A GetOrCreateAllocator("Cpu") has returned the stored instance without
\* constructing one.
C7_Witness ==
  \E t \in Threads :
    /\ last[t].op = "GetOrCreateAllocator"
    /\ last[t].dev = CPU
    /\ last[t].made = 0
    /\ last[t].ret = 1
    /\ created = 1

\* C8: GetOrCreateAllocator(d) for d other than "Cpu" fails with
\* UnsupportedDevice on every call and changes neither the registry nor the
\* blob map; the registry never holds an entry for such a device.
C8_UnsupportedDevice ==
  [][/\ DOMAIN allocators_' \subseteq {CPU}
     /\ \A t \in Writers, d \in Devices \ {CPU} :
          AllocFind(t, d) =>
            /\ last'[t].err = "UnsupportedDevice"
            /\ pc'[t] = "cs"
            /\ alloc'[t] = alloc[t]
            /\ created' = created
            /\ allocators_' = allocators_
            /\ prepacked_weights_map_' = prepacked_weights_map_]_vars

\* GetOrCreateAllocator has failed with UnsupportedDevice on a cache that
\* already holds the "Cpu" allocator.
C8_Witness ==
  \E t \in Threads :
    /\ last[t].op = "GetOrCreateAllocator"
    /\ last[t].dev # CPU
    /\ last[t].err = "UnsupportedDevice"
    /\ FindAllocator(allocators_, CPU)

\* C9: with every caller holding mutex_ around GetOrCreateAllocator("Cpu"),
\* in every interleaving at most one allocator is constructed, at most one
\* caller is inside the call, and all callers are handed the same instance.
C9_OneAllocatorUnderLock ==
  /\ created <= 1
  /\ Cardinality(handed) <= 1
  /\ Cardinality({t \in Threads : pc[t] \in {"create", "store"}}) <= 1
  /\ \A t \in Threads : alloc[t] # NoAllocator => handed = {alloc[t]}

\* A caller holding mutex_ has been handed the allocator that another
\* caller's earlier call constructed.
C9_Witness ==
  \E t \in Threads :
    /\ mutex_ = t
    /\ maker \in Threads \ {t}
    /\ alloc[t] = 1
    /\ handed = {1}
    /\ last[t].op = "GetOrCreateAllocator"
    /\ last[t].made = 0

\* C10: the destructor releases every cached blob before it destroys the
\* registry's allocators: no blob is in the map once the registry is gone,
\* and no blob in the map was allocated through a released allocator.
C10_BlobsBeforeAllocators ==
  /\ released # {} => DOMAIN prepacked_weights_map_ = {}
  /\ \A k \in DOMAIN prepacked_weights_map_ :
       prepacked_weights_map_[k].alloc \notin released

\* The blobs are gone and the registry still holds the allocator one of them
\* was allocated through.
C10_Witness ==
  /\ destroyed = 1
  /\ DOMAIN prepacked_weights_map_ = {}
  /\ FindAllocator(allocators_, CPU)
  /\ \E k \in DOMAIN firstBlob : firstBlob[k].alloc = allocators_[CPU]

\* ====================================================================
\* PrepackedWeightsForSerialization
\* ====================================================================

\* The two messages GetBlobForWeight throws with, and the outcome of a build
\* that stops at the use of an invalidated iterator.
IndexOutOfRange == "Index out of bounds for weight: "
AbsentWeight == "No prepacked weight found for weight: "
Aborted == "aborted"

\* What dereferencing an invalidated iterator does is undefined: a build
\* whose iterators are plain node pointers still reaches the entry, a build
\* with checked iterators stops.
UBOutcomes == {"reaches the entry", "stops"}

\* A KeyToBlobMapIterator: the entry it points at, and whether it is still
\* valid.  An insertion that rehashes an unordered_map invalidates every
\* iterator into it.
Iterator(key) == [key |-> key, valid |-> TRUE]

Invalidated(index) ==
  [n \in DOMAIN index |-> [i \in DOMAIN index[n] |-> [index[n][i] EXCEPT !.valid = FALSE]]]

\* PrepackedWeightsForSerialization::WriteWeight: emplace, which keeps an
\* entry that is already there, then push_back of the iterator emplace
\* returned on weight_to_prepacks_[weight_name].
SerWriteWeight(map, index, weight_name, key, packed_weight, rehash) ==
  LET result == MapInsert(map, key, packed_weight)
      kept == IF result.second /\ rehash THEN Invalidated(index) ELSE index
  IN [map |-> result.map,
      index |-> PushBack(kept, weight_name, Iterator(key))]

GetBlobNumForWeight(index, weight_name) ==
  IF weight_name \in DOMAIN index THEN Len(index[weight_name]) ELSE 0

\* GetBlobForWeight(weight_name, index), the index counted from 0.
GetBlobForWeight(map, index, weight_name, i, ub) ==
  IF weight_name \in DOMAIN index
    THEN IF ~(i < Len(index[weight_name]))
           THEN [ret |-> NoBlob, err |-> IndexOutOfRange]
           ELSE LET it == index[weight_name][i + 1]
                IN IF it.valid \/ ub = "reaches the entry"
                     THEN [ret |-> map[it.key], err |-> "none"]
                     ELSE [ret |-> NoBlob, err |-> Aborted]
    ELSE [ret |-> NoBlob, err |-> AbsentWeight]

WCall(op, weight_name, i, ret, err) ==
  [op |-> op, name |-> weight_name, index |-> i, ret |-> ret, err |-> err]

\* How many iterators the index holds.
RECURSIVE SumLen(_, _)
SumLen(index, names) ==
  IF names = {} THEN 0
  ELSE LET n == CHOOSE x \in names : TRUE
       IN Len(index[n]) + SumLen(index, names \ {n})

DoSerWriteWeight(weight_name, key, packed_weight, rehash) ==
  /\ SumLen(weight_to_prepacks_, DOMAIN weight_to_prepacks_) < MaxWrites
  /\ LET r == SerWriteWeight(ser_key_to_blobs_, weight_to_prepacks_,
                             weight_name, key, packed_weight, rehash)
     IN /\ ser_key_to_blobs_' = r.map
        /\ weight_to_prepacks_' = r.index
  /\ wres' = WCall("WriteWeight", weight_name, 0, NoBlob, "none")
  /\ written' = PushBack(written, weight_name, <<key, packed_weight>>)
  /\ UNCHANGED <<containerVars, scopeVars, keyVars>>

DoGetBlobNumForWeight(weight_name) ==
  /\ wres' = WCall("GetBlobNumForWeight", weight_name, 0,
                   GetBlobNumForWeight(weight_to_prepacks_, weight_name), "none")
  /\ UNCHANGED <<ser_key_to_blobs_, weight_to_prepacks_, written, containerVars, scopeVars, keyVars>>

DoGetBlobForWeight(weight_name, i, ub) ==
  /\ LET r == GetBlobForWeight(ser_key_to_blobs_, weight_to_prepacks_, weight_name, i, ub)
     IN wres' = WCall("GetBlobForWeight", weight_name, i, r.ret, r.err)
  /\ UNCHANGED <<ser_key_to_blobs_, weight_to_prepacks_, written, containerVars, scopeVars, keyVars>>

SerNext ==
  \/ \E n \in Names, key \in Keys, b \in StoreBlobs, rehash \in BOOLEAN :
       DoSerWriteWeight(n, key, b, rehash)
  \/ \E n \in Names : DoGetBlobNumForWeight(n)
  \/ \E n \in Names, i \in 0..MaxWrites, ub \in UBOutcomes : DoGetBlobForWeight(n, i, ub)

SerSpec == Init /\ [][SerNext]_vars

\* C23: GetOrCreateAllocator is not atomic.  Callers that do not hold
\* mutex_ can both miss the registry and each construct an allocator, so
\* that two different instances are handed out; as long as every caller
\* has held mutex_, at most one allocator is constructed and handed out.
C23_TwoInstancesOnlyUnlocked ==
  unsynced = {} => created <= 1 /\ Cardinality(handed) <= 1

\* Two callers without the lock have each been handed the allocator they
\* constructed themselves, and the two differ.
C23_Witness ==
  \E t, u \in unsynced :
    /\ t # u
    /\ alloc[t] # NoAllocator
    /\ alloc[u] # NoAllocator
    /\ alloc[t] # alloc[u]
    /\ last[t].op = "GetOrCreateAllocator" /\ last[t].made = 1
    /\ last[u].op = "GetOrCreateAllocator" /\ last[u].made = 1

\* C24: the container never takes mutex_ itself.  A thread that holds
\* mutex_ can call HasWeight, GetWeight, WriteWeight, GetNumberOfElements
\* and GetOrCreateAllocator, and none of them touches mutex_; and on a fair
\* lock every thread that asks for mutex_ gets it, every blob that is packed
\* is written, and the thread gets to the end and has released the lock.
C24_PassiveStoreFairLock ==
  /\ [](\A t \in Threads :
         mutex_ = t /\ pc[t] = "cs" =>
           /\ \A key \in Keys :
                /\ ENABLED DoHasWeight(t, key)
                /\ ENABLED DoGetWeight(t, key)
                /\ \E b \in Candidates(t) : ENABLED DoWriteWeight(t, key, b)
           /\ ENABLED DoGetNumberOfElements(t)
           /\ ENABLED AllocFind(t, CPU))
  /\ [][\A t \in Threads :
          (\/ \E key \in Keys : DoHasWeight(t, key) \/ DoGetWeight(t, key)
           \/ \E key \in Keys : \E b \in Candidates(t) : DoWriteWeight(t, key, b)
           \/ DoGetNumberOfElements(t)
           \/ \E d \in Devices : AllocFind(t, d)
           \/ AllocCreate(t)
           \/ AllocStore(t)) => mutex_' = mutex_]_vars
  /\ \A t \in Threads : (pc[t] = "waiting") ~> (mutex_ = t)
  /\ \A t \in Threads : (pc[t] = "packed") ~> (pc[t] = "cs" /\ last[t].op = "WriteWeight")
  /\ \A t \in Threads : (pc[t] = "waiting") ~> (pc[t] = "idle")

\* While one thread waits for mutex_, the holder has written the blob it
\* packed after HasWeight reported the key absent.
C24_Witness ==
  \E t, u \in Threads :
    /\ pc[u] = "waiting"
    /\ mutex_ = t
    /\ last[t].op = "WriteWeight"
    /\ last[t].ret = TRUE
    /\ last[t].arg.alloc # NoAllocator

\* C25: HasWeight, GetWeight, whether it succeeds or fails, and
\* GetNumberOfElements leave the key-to-blob map and the allocator registry
\* as they were, so the same query asked again right after returns the same
\* result.
C25_QueriesPure ==
  [][\A t \in Threads :
       /\ \A key \in Keys :
            /\ DoHasWeight(t, key) =>
                 /\ UNCHANGED <<prepacked_weights_map_, allocators_>>
                 /\ HasWeight(prepacked_weights_map_', key) = last'[t].ret
            /\ DoGetWeight(t, key) =>
                 /\ UNCHANGED <<prepacked_weights_map_, allocators_>>
                 /\ GetWeight(prepacked_weights_map_', key).err = last'[t].err
                 /\ GetWeight(prepacked_weights_map_', key).val = last'[t].ret
       /\ DoGetNumberOfElements(t) =>
            /\ UNCHANGED <<prepacked_weights_map_, allocators_>>
            /\ GetNumberOfElements(prepacked_weights_map_') = last'[t].ret]_vars

\* GetWeight has failed on an absent key in a container that holds a blob
\* and an allocator.
C25_Witness ==
  \E t \in Threads :
    /\ last[t].op = "GetWeight"
    /\ last[t].err = "NotFound"
    /\ prepacked_weights_map_ # EmptyMap
    /\ FindAllocator(allocators_, CPU)

\* C26: while the container lives, no operation removes or replaces an entry
\* of the key-to-blob map: a key that HasWeight reports stays reported,
\* GetWeight keeps returning the blob first stored under it, and
\* GetNumberOfElements never decreases.
C26_GrowOnly ==
  [][Alive' =>
       /\ \A key \in Keys :
            /\ HasWeight(prepacked_weights_map_, key) =>
                 /\ HasWeight(prepacked_weights_map_', key)
                 /\ GetWeight(prepacked_weights_map_', key) =
                      GetWeight(prepacked_weights_map_, key)
            /\ \A t \in Threads :
                 /\ last'[t].op = "HasWeight" /\ last'[t].key = key /\ key \in DOMAIN firstBlob
                      => last'[t].ret = TRUE
                 /\ last'[t].op = "GetWeight" /\ last'[t].key = key /\ key \in DOMAIN firstBlob
                      => last'[t].err = "none" /\ last'[t].ret = firstBlob[key]
       /\ GetNumberOfElements(prepacked_weights_map_') >=
            GetNumberOfElements(prepacked_weights_map_)]_vars

\* With both keys stored, GetWeight returns for a key the packed blob that
\* was first stored under it, which is not the other key's blob.
C26_Witness ==
  \E t \in Threads : \E key, other \in Keys :
    /\ key # other
    /\ GetNumberOfElements(prepacked_weights_map_) = 2
    /\ DOMAIN firstBlob = Keys
    /\ last[t].op = "GetWeight" /\ last[t].key = key /\ last[t].err = "none"
    /\ last[t].ret = firstBlob[key]
    /\ firstBlob[key].alloc # NoAllocator
    /\ firstBlob[other] # firstBlob[key]

\* C27: a blob has one owner at a time and changes owner by move.  After
\* every step a caller owns a blob only between packing it and writing it,
\* while the map has no entry for its key.  After WriteWeight returns true the map entry holds the
\* blob, the caller's object is moved-from and nothing was released; after it
\* returns false the map is as before, the caller's object is moved-from and
\* the rejected blob has been released.
C27_ExclusiveOwnershipByMove ==
  [][\A t \in Threads :
       /\ holding'[t] # NoBlob =>
            /\ pc'[t] = "packed"
            /\ holding'[t] = last'[t].arg
            /\ ~HasWeight(prepacked_weights_map_', last'[t].key)
            /\ dropped'[t] = NoBlob
       /\ dropped'[t] # NoBlob =>
            /\ last'[t].op = "WriteWeight"
            /\ last'[t].ret = FALSE
            /\ dropped'[t] = last'[t].arg
       /\ \A key \in WrittenKey(t), b \in Candidates(t) :
            (t \in Writers /\ DoWriteWeight(t, key, b)) =>
              /\ holding'[t] = MovedFrom
              /\ last'[t].ret =>
                   /\ ~HasWeight(prepacked_weights_map_, key)
                   /\ prepacked_weights_map_'[key] = b
                   /\ dropped'[t] = NoBlob
              /\ ~last'[t].ret =>
                   /\ prepacked_weights_map_' = prepacked_weights_map_
                   /\ dropped'[t] = b]_vars

\* A write of a candidate that differs from the stored blob has returned false:
\* the candidate was released, the map still holds the earlier packed blob and
\* the caller holds nothing.
C27_Witness ==
  \E t \in Threads :
    /\ last[t].op = "WriteWeight"
    /\ last[t].ret = FALSE
    /\ dropped[t] = last[t].arg
    /\ dropped[t] # NoBlob
    /\ holding[t] = NoBlob
    /\ prepacked_weights_map_[last[t].key] # last[t].arg
    /\ prepacked_weights_map_[last[t].key].alloc # NoAllocator

\* ====================================================================
\* Key composition
\* ====================================================================

DoComposeKey(i) ==
  /\ cache_keys[i] = NoKey
  /\ cache_keys' = [cache_keys EXCEPT ![i] = CacheKey(packings[i].op_type, packings[i].hash)]
  /\ UNCHANGED <<packings, containerVars, scopeVars, serVars>>

KeyNext == \E i \in 1..2 : DoComposeKey(i)

KeyInit ==
  /\ packings \in Packings \X Packings
  /\ cache_keys = <<NoKey, NoKey>>
  /\ InitContainer
  /\ InitStore(FALSE)
  /\ InitSer

KeySpec == KeyInit /\ [][KeyNext]_vars

C11_GetOrCreateMemoized ==
  [][\A s \in Scopes, graph \in Graphs :
       DoGetOrCreateSubgraph(s, graph) =>
         IF graph \in DOMAIN scopes[s].subgraph_prepacks_
           THEN /\ sres'.ret = scopes[s].subgraph_prepacks_[graph]
                /\ scopes' = scopes
                /\ key_to_blobs_' = key_to_blobs_
           ELSE /\ sres'.ret \notin Scopes
                /\ DOMAIN scopes' = Scopes \cup {sres'.ret}
                /\ scopes'[s].subgraph_prepacks_[graph] = sres'.ret
                /\ \A o \in Scopes \ {s} : scopes'[o] = scopes[o]]_vars

\* A later GetOrCreateSubgraph call has returned a child that already holds
\* an index entry (a child is empty when it is made).
C11_Witness ==
  /\ sres.op = "GetOrCreateSubgraph"
  /\ sres.ret \in Scopes
  /\ scopes[sres.ret].parent_ = sres.scope
  /\ scopes[sres.ret].weight_to_pre_packs_ # EmptyMap

\* The children GetOrCreateSubgraph has returned so far for graph on scope s.
ReturnedFor(s, graph) == {t[3] : t \in {u \in returned : u[1] = s /\ u[2] = graph}}

\* C12: GetSubgraph(graph) on scope s returns null as long as no
\* GetOrCreateSubgraph(graph) call has been made on s, and once one has been
\* made it returns the very child that call returned, whether or not the
\* child holds anything yet.
C12_GetSubgraphAfterCreate ==
  [][\A s \in Scopes, graph \in Graphs :
       DoGetSubgraph(s, graph) =>
         IF ReturnedFor(s, graph) = {}
           THEN sres'.ret = NoScope
           ELSE ReturnedFor(s, graph) = {sres'.ret}]_vars

\* GetSubgraph has returned a child that is still empty.
C12_Witness ==
  /\ sres.op = "GetSubgraph"
  /\ sres.ret \in Scopes
  /\ \E graph \in Graphs : <<sres.scope, graph, sres.ret>> \in returned
  /\ scopes[sres.ret].weight_to_pre_packs_ = EmptyMap
  /\ scopes[sres.ret].subgraph_prepacks_ = EmptyMap

FlatMap(s) == key_to_blobs_[scopes[s].key_to_blobs_]

\* The index list of scope s for weight_name, empty when there is none.
IndexList(sc, s, weight_name) ==
  IF weight_name \in DOMAIN sc[s].weight_to_pre_packs_
    THEN sc[s].weight_to_pre_packs_[weight_name]
    ELSE <<>>

\* C14: CreateOrOverWrite returns true exactly when an entry at key existed
\* in the flat map before the call and false when there was none; a second
\* call with the same name and key therefore returns true, and both calls
\* store their blob.
C14_ReportsPriorEntry ==
  [][\A s \in Scopes, n \in Names, key \in Keys, b \in StoreBlobs :
       DoCreateOrOverWrite(s, n, key, b) =>
         /\ sres'.ret = (key \in DOMAIN FlatMap(s))
         /\ key \in DOMAIN key_to_blobs_'[scopes[s].key_to_blobs_]]_vars

\* Two calls with one name and one key have been made on an empty store and
\* the second has returned true.
C14_Witness ==
  /\ sres.op = "CreateOrOverWrite"
  /\ sres.ret = TRUE
  /\ calls = 2
  /\ \E n \in Names, key \in Keys : IndexList(scopes, sres.scope, n) = <<key, key>>

\* C15: CreateOrOverWrite is last-writer-wins.  After
\* CreateOrOverWrite(name, key, b) on a scope, GetPrepackedWeights(key)
\* returns b whatever was stored at key before, and the entry for key is
\* appended to that scope's index list for name.
C15_LastWriterWins ==
  [][\A s \in Scopes, n \in Names, key \in Keys, b \in StoreBlobs :
       DoCreateOrOverWrite(s, n, key, b) =>
         /\ GetPrepackedWeights(scopes', key_to_blobs_', s, key) = b
         /\ IndexList(scopes', s, n) = Append(IndexList(scopes, s, n), key)]_vars

\* CreateOrOverWrite has replaced a different blob stored at a key.
C15_Witness ==
  /\ sres.op = "CreateOrOverWrite"
  /\ sres.ret = TRUE
  /\ replaced # {}
  /\ \E key \in replaced : key \in Linked(scopes[sres.scope].weight_to_pre_packs_)

\* C16: a blob inserted with InsertFromDisk(key, blob) is what
\* GetPrepackedWeights(key) returns, and InsertFromDisk leaves the
\* weight-name index of every scope as it was.
C16_InsertFromDiskByKeyOnly ==
  [][\A s \in Scopes, key \in Keys, b \in StoreBlobs :
       DoInsertFromDisk(s, key, b) =>
         /\ GetPrepackedWeights(scopes', key_to_blobs_', s, key) = b
         /\ \A o \in Scopes :
              scopes'[o].weight_to_pre_packs_ = scopes[o].weight_to_pre_packs_]_vars

\* InsertFromDisk has stored a blob that no index list links, in a store
\* whose index is not empty.
C16_Witness ==
  /\ sres.op = "InsertFromDisk"
  /\ \E o \in Scopes : scopes[o].weight_to_pre_packs_ # EmptyMap
  /\ \E key \in DOMAIN FlatMap(sres.scope) :
       \A o \in Scopes : key \notin Linked(scopes[o].weight_to_pre_packs_)

\* C17: GetPrepackedWeights(key) returns null for a key that is absent from
\* the flat map and the stored blob for a key that is present; it has no
\* failing outcome.
C17_NullWhenAbsent ==
  [][\A s \in Scopes, key \in Keys :
       DoGetPrepackedWeights(s, key) =>
         sres'.ret = IF key \in DOMAIN FlatMap(s) THEN FlatMap(s)[key] ELSE NoBlob]_vars

\* GetPrepackedWeights has returned null in a store that holds a blob at
\* some other key.
C17_Witness ==
  /\ sres.op = "GetPrepackedWeights"
  /\ sres.ret = NoBlob
  /\ DOMAIN FlatMap(sres.scope) # {}

\* C19: all scopes of one store share one flat key-to-blob map.  Every scope
\* refers to the store's own map, and a blob written at a key through any
\* scope, by InsertFromDisk or by CreateOrOverWrite, is at once what
\* GetPrepackedWeights returns for that key on every scope of the tree.
C19_OneFlatMap ==
  [][/\ \A o \in DOMAIN scopes' : scopes'[o].key_to_blobs_ = TheMap
     /\ DOMAIN key_to_blobs_' = {TheMap}
     /\ \A s \in Scopes, key \in Keys, b \in StoreBlobs :
          (\/ DoInsertFromDisk(s, key, b)
           \/ \E n \in Names : DoCreateOrOverWrite(s, n, key, b)) =>
            \A o \in DOMAIN scopes' : GetPrepackedWeights(scopes', key_to_blobs_', o, key) = b]_vars

\* GetPrepackedWeights on a scope that has linked nothing has returned the
\* one blob of the store, which another scope wrote.
C19_Witness ==
  /\ sres.op = "GetPrepackedWeights"
  /\ sres.ret # NoBlob
  /\ scopes[sres.scope].weight_to_pre_packs_ = EmptyMap
  /\ \E s \in Scopes \ {sres.scope} :
       /\ Linked(scopes[s].weight_to_pre_packs_) = DOMAIN FlatMap(sres.scope)
       /\ Parent(scopes, s) = sres.scope

C21_ModeFlagFixed ==
  [][\A s \in DOMAIN scopes' :
       IsOverWriteForSave(scopes', s) = IsOverWriteForSave(scopes, MainGraph)]_vars

\* IsOverWriteForSave has answered true on a child scope, after two calls
\* that changed the store.
C21_Witness ==
  /\ sres.op = "IsOverWriteForSave"
  /\ sres.ret = TRUE
  /\ Parent(scopes, sres.scope) # NoScope
  /\ calls = MaxCalls

\* The scope reached from s by following Parent() n times; NoScope once the
\* chain has ended.
RECURSIVE Ancestor(_, _, _)
Ancestor(sc, s, n) ==
  IF n = 0 \/ s = NoScope THEN s ELSE Ancestor(sc, Parent(sc, s), n - 1)

\* C28: the scope tree is well formed in every reachable state.  The root's
\* Parent() is null and it is the only scope without a parent; every child
\* that S.GetOrCreateSubgraph(G) has created or returned has Parent() = S, as
\* does what a Parent() call reports; and following Parent() from any scope
\* arrives at the root within as many steps as there are scopes.
C28_TreeWellFormed ==
  /\ Parent(scopes, MainGraph) = NoScope
  /\ {s \in Scopes : Parent(scopes, s) = NoScope} = {MainGraph}
  /\ \A s \in Scopes : \A graph \in DOMAIN scopes[s].subgraph_prepacks_ :
       /\ scopes[s].subgraph_prepacks_[graph] \in Scopes
       /\ Parent(scopes, scopes[s].subgraph_prepacks_[graph]) = s
  /\ \A r \in returned : r[3] \in Scopes /\ Parent(scopes, r[3]) = r[1]
  /\ \A s \in Scopes :
       \E n \in 0..(Cardinality(Scopes) - 1) : Ancestor(scopes, s, n) = MainGraph
  /\ sres.op = "Parent" => sres.ret = Parent(scopes, sres.scope)

\* Parent() was asked on a grandchild of the root and reported the root's
\* child, two steps below the root.
C28_Witness ==
  /\ sres.op = "Parent"
  /\ sres.ret # NoScope
  /\ sres.ret # MainGraph
  /\ Ancestor(scopes, sres.scope, 2) = MainGraph
  /\ <<sres.ret, "g1", sres.scope>> \in returned

\* The shape of the scope tree: each scope's parent and its children by graph.
Shape(sc) ==
  [s \in DOMAIN sc |->
     [parent_ |-> sc[s].parent_, subgraph_prepacks_ |-> sc[s].subgraph_prepacks_]]

\* C29: the scope tree only grows.  Every step keeps every scope, its parent
\* and each of its children, so a child that S.GetSubgraph(G) reports is
\* reported again, the same instance, after the step; and the tree changes
\* shape only in a GetOrCreateSubgraph call: InsertFromDisk, CreateOrOverWrite,
\* GetPrepackedWeights and GetSubgraph leave it as it was.
C29_TreeOnlyGrows ==
  [][/\ \A s \in Scopes :
          /\ s \in DOMAIN scopes'
          /\ Parent(scopes', s) = Parent(scopes, s)
          /\ \A graph \in Graphs :
               GetSubgraph(scopes, s, graph) # NoScope =>
                 GetSubgraph(scopes', s, graph) = GetSubgraph(scopes, s, graph)
     /\ \A r \in returned : GetSubgraph(scopes', r[1], r[2]) = r[3]
     /\ Shape(scopes') # Shape(scopes) =>
          /\ sres'.op = "GetOrCreateSubgraph"
          /\ sres'.ret \notin Scopes
          /\ DOMAIN scopes' = Scopes \cup {sres'.ret}
     /\ sres'.op \in {"InsertFromDisk", "CreateOrOverWrite", "GetPrepackedWeights", "GetSubgraph"}
          => Shape(scopes') = Shape(scopes)]_vars

\* After a child was created under the root and a blob was then written
\* through that child, GetSubgraph on the root still reports the child.
C29_Witness ==
  /\ sres.op = "GetSubgraph"
  /\ sres.scope = MainGraph
  /\ sres.ret # NoScope
  /\ <<MainGraph, "g1", sres.ret>> \in returned
  /\ scopes[sres.ret].weight_to_pre_packs_ # EmptyMap

\* The (scope, graph) pairs under which a child exists.
ChildSlots(sc) == {<<s, graph>> \in (DOMAIN sc) \X Graphs : graph \in DOMAIN sc[s].subgraph_prepacks_}

\* C30: a child scope is identified by its parent scope together with the
\* graph.  After every step two different (scope, graph) pairs that have a
\* child have different children, be it two graphs under one scope or one
\* graph under two scopes; a call on one scope leaves the weight-name index and
\* the children of every other scope as they were; and a child made by
\* GetOrCreateSubgraph starts with an empty index and no children, so that
\* GetSubgraph(G) on any scope other than the one asked stays as it was.
C30_IdentityPerParentAndGraph ==
  [][/\ \A p, q \in ChildSlots(scopes') :
          p # q => GetSubgraph(scopes', p[1], p[2]) # GetSubgraph(scopes', q[1], q[2])
     /\ \A o \in Scopes \ {sres'.scope} :
          /\ scopes'[o].weight_to_pre_packs_ = scopes[o].weight_to_pre_packs_
          /\ scopes'[o].subgraph_prepacks_ = scopes[o].subgraph_prepacks_
          /\ \A graph \in Graphs : GetSubgraph(scopes', o, graph) = GetSubgraph(scopes, o, graph)
     /\ \A o \in DOMAIN scopes' \ Scopes :
          /\ scopes'[o].weight_to_pre_packs_ = EmptyMap
          /\ scopes'[o].subgraph_prepacks_ = EmptyMap
          /\ \A graph \in Graphs : GetSubgraph(scopes', o, graph) = NoScope]_vars

\* The same graph was asked for on the root and then on the root's child:
\* the two calls made two different scopes, and the second child has no child
\* of its own for that graph.
C30_Witness ==
  \E graph \in Graphs :
    /\ sres.op = "GetOrCreateSubgraph"
    /\ sres.scope # MainGraph
    /\ <<MainGraph, graph, sres.scope>> \in returned
    /\ <<sres.scope, graph, sres.ret>> \in returned
    /\ sres.ret # sres.scope
    /\ GetSubgraph(scopes, sres.ret, graph) = NoScope

\* C31: the read-only operations of a scope have no effect.  GetSubgraph,
\* found or not, GetPrepackedWeights, found or not, IsOverWriteForSave and
\* Parent leave the flat map, every weight-name index and the scope tree as
\* they were; a GetSubgraph that finds nothing creates no scope.
C31_ReadOnlyNoEffect ==
  [][\A s \in Scopes :
       /\ \A graph \in Graphs :
            DoGetSubgraph(s, graph) =>
              /\ UNCHANGED <<key_to_blobs_, scopes>>
              /\ GetSubgraph(scopes, s, graph) = NoScope =>
                   sres'.ret = NoScope /\ DOMAIN scopes' = Scopes
       /\ \A key \in Keys :
            DoGetPrepackedWeights(s, key) => UNCHANGED <<key_to_blobs_, scopes>>
       /\ DoIsOverWriteForSave(s) => UNCHANGED <<key_to_blobs_, scopes>>
       /\ DoParent(s) => UNCHANGED <<key_to_blobs_, scopes>>]_vars

\* GetSubgraph found nothing on a child scope, in a store that has scopes,
\* a blob and a name index: no scope was added for the call.
C31_Witness ==
  /\ sres.op = "GetSubgraph"
  /\ sres.ret = NoScope
  /\ sres.scope # MainGraph
  /\ scopes[sres.scope].subgraph_prepacks_ = EmptyMap
  /\ Cardinality(Scopes) = 2
  /\ \E s \in Scopes : scopes[s].weight_to_pre_packs_ # EmptyMap
  /\ FlatMap(MainGraph) # EmptyMap

\* ------------------------------------- PrepackedWeightsForSerialization claims

\* C18: GetBlobForWeight(name, i) fails with IndexOutOfRange when name is
\* registered and i is not below GetBlobNumForWeight(name), fails with
\* AbsentWeight when name has no registered blobs, and otherwise returns a
\* blob; a failing call leaves the store as it was.
C18_LookupOutcomes ==
  [][\A n \in Names, i \in 0..MaxWrites, ub \in UBOutcomes :
       DoGetBlobForWeight(n, i, ub) =>
         /\ IF n \notin DOMAIN weight_to_prepacks_
              THEN wres'.err = AbsentWeight
              ELSE IF i >= GetBlobNumForWeight(weight_to_prepacks_, n)
                THEN wres'.err = IndexOutOfRange
                ELSE wres'.err = "none" /\ wres'.ret \in StoreBlobs
         /\ wres'.err # "none" =>
              UNCHANGED <<ser_key_to_blobs_, weight_to_prepacks_>>]_vars

\* GetBlobForWeight has been called with an index in range and has not
\* returned a blob: the iterator at that position was invalidated by a
\* later insertion.
C18_Witness ==
  /\ wres.op = "GetBlobForWeight"
  /\ wres.name \in DOMAIN weight_to_prepacks_
  /\ wres.index < GetBlobNumForWeight(weight_to_prepacks_, wres.name)
  /\ ~weight_to_prepacks_[wres.name][wres.index + 1].valid
  /\ wres.err = Aborted

\* The number of writes recorded under a weight name.
WritesUnder(n) == IF n \in DOMAIN written THEN Len(written[n]) ELSE 0

\* The writes under n used pairwise different keys.
PairwiseDifferentKeys(n) ==
  \A i, j \in 1..WritesUnder(n) : i # j => written[n][i][1] # written[n][j][1]

\* C32: GetBlobNumForWeight(name) is 0 for a name never written and otherwise
\* the number of writes made under that name, whatever was written under
\* other names; and after n writes under name with pairwise different keys
\* GetBlobForWeight(name, i) returns the blob of the (i+1)-th write for every
\* i below n.
C32_IndexAccountingAndOrder ==
  \A n \in Names :
    /\ GetBlobNumForWeight(weight_to_prepacks_, n) = WritesUnder(n)
    /\ wres.op = "GetBlobNumForWeight" /\ wres.name = n => wres.ret = WritesUnder(n)
    /\ PairwiseDifferentKeys(n) =>
         \A i \in 0..(WritesUnder(n) - 1), ub \in UBOutcomes :
           GetBlobForWeight(ser_key_to_blobs_, weight_to_prepacks_, n, i, ub) =
             [ret |-> written[n][i + 1][2], err |-> "none"]

\* GetBlobForWeight has returned, through a valid iterator, a blob that is
\* not the one written at that position: the key of that write was already
\* in the map, stored by a write under the other name.
C32_Witness ==
  /\ wres.op = "GetBlobForWeight"
  /\ wres.err = "none"
  /\ wres.name \in DOMAIN written
  /\ PairwiseDifferentKeys(wres.name)
  /\ wres.index < WritesUnder(wres.name)
  /\ weight_to_prepacks_[wres.name][wres.index + 1].valid
  /\ wres.ret # written[wres.name][wres.index + 1][2]

\* The positions, counted from 0, at which the index list of n refers to key.
PositionsOf(index, n, key) ==
  {i \in 0..(GetBlobNumForWeight(index, n) - 1) : index[n][i + 1].key = key}

\* C33: WriteWeight(name, key, blob) with a key that is already in the
\* key-to-blob map keeps the blob stored there and does not store the new
\* one, yet appends one more reference to that entry under name:
\* GetBlobNumForWeight(name) grows by one, the number of stored blobs does
\* not, and every position of name that refers to key returns the original
\* blob.
C33_ExistingKeyKeepsBlob ==
  [][\A n \in Names, key \in DOMAIN ser_key_to_blobs_, b \in StoreBlobs, rehash \in BOOLEAN :
       DoSerWriteWeight(n, key, b, rehash) =>
         /\ ser_key_to_blobs_' = ser_key_to_blobs_
         /\ GetBlobNumForWeight(weight_to_prepacks_', n) =
              GetBlobNumForWeight(weight_to_prepacks_, n) + 1
         /\ GetBlobNumForWeight(weight_to_prepacks_, n) \in PositionsOf(weight_to_prepacks_', n, key)
         /\ \A i \in PositionsOf(weight_to_prepacks_', n, key), ub \in UBOutcomes :
              GetBlobForWeight(ser_key_to_blobs_', weight_to_prepacks_', n, i, ub) =
                [ret |-> ser_key_to_blobs_[key], err |-> "none"]]_vars

\* A third write repeated a key under the same name after the insertion of
\* another key had invalidated the first reference: the name has two
\* positions for the key, the earlier one invalid, and two blobs are stored.
C33_Witness ==
  /\ wres.op = "WriteWeight"
  /\ wres.name \in DOMAIN weight_to_prepacks_
  /\ GetBlobNumForWeight(weight_to_prepacks_, wres.name) = 2
  /\ weight_to_prepacks_[wres.name][1].key = weight_to_prepacks_[wres.name][2].key
  /\ ~weight_to_prepacks_[wres.name][1].valid
  /\ weight_to_prepacks_[wres.name][2].valid
  /\ written[wres.name][2][2] # ser_key_to_blobs_[weight_to_prepacks_[wres.name][2].key]
  /\ Cardinality(DOMAIN ser_key_to_blobs_) = 2

\* C34: the references of the weight-name index never dangle.  After any
\* sequence of writes, those that grow the key-to-blob map included, every
\* iterator stored under any weight name is valid, points at an entry that
\* is in the map, and reading through it yields the blob stored at that key.
C34_ReferencesNeverDangle ==
  \A n \in DOMAIN weight_to_prepacks_ : \A i \in 1..Len(weight_to_prepacks_[n]) :
    LET it == weight_to_prepacks_[n][i]
    IN /\ it.valid
       /\ it.key \in DOMAIN ser_key_to_blobs_
       /\ \A ub \in UBOutcomes :
            GetBlobForWeight(ser_key_to_blobs_, weight_to_prepacks_, n, i - 1, ub) =
              [ret |-> ser_key_to_blobs_[it.key], err |-> "none"]

\* The index holds an iterator that a later insertion has invalidated; the
\* entry it was taken for is still in the map, and a newer iterator is valid.
C34_Witness ==
  \E n, m \in DOMAIN weight_to_prepacks_ :
    /\ ~weight_to_prepacks_[n][1].valid
    /\ weight_to_prepacks_[n][1].key \in DOMAIN ser_key_to_blobs_
    /\ weight_to_prepacks_[m][Len(weight_to_prepacks_[m])].valid
    /\ wres.op = "WriteWeight"

\* C35: every weight name in the index has a non-empty list, the entry being
\* made together with its first reference and lookups making none; hence
\* GetBlobNumForWeight(name) is 0 exactly when GetBlobForWeight(name, i)
\* fails with AbsentWeight, and GetBlobForWeight(name, 0) succeeds for every
\* registered name.
C35_RegisteredNamesNonEmpty ==
  [][/\ \A n \in DOMAIN weight_to_prepacks_' : Len(weight_to_prepacks_'[n]) >= 1
     /\ \A n \in Names :
          /\ (DoGetBlobNumForWeight(n) \/ \E i \in 0..MaxWrites, ub \in UBOutcomes :
                                            DoGetBlobForWeight(n, i, ub))
               => DOMAIN weight_to_prepacks_' = DOMAIN weight_to_prepacks_
          /\ \A i \in 0..MaxWrites, ub \in UBOutcomes :
               (GetBlobNumForWeight(weight_to_prepacks_', n) = 0) <=>
                 (GetBlobForWeight(ser_key_to_blobs_', weight_to_prepacks_', n, i, ub).err = AbsentWeight)
     /\ \A n \in DOMAIN weight_to_prepacks_', ub \in UBOutcomes :
          GetBlobForWeight(ser_key_to_blobs_', weight_to_prepacks_', n, 0, ub).err = "none"]_vars

\* GetBlobForWeight(name, 0) on a registered name has not succeeded: the
\* first iterator of the name was invalidated by a later insertion.
C35_Witness ==
  /\ wres.op = "GetBlobForWeight"
  /\ wres.index = 0
  /\ wres.name \in DOMAIN weight_to_prepacks_
  /\ wres.err # "none"
  /\ wres.err # AbsentWeight
  /\ GetBlobNumForWeight(weight_to_prepacks_, wres.name) >= 1

====
